---- MODULE Spec2Model ----
(***************************************************************************)
(* State-machine model of the orchestration notebooks of ScratchAgentic:   *)
(*   - the prompt chain with a gate check   (src/unnamed/part_000)          *)
(*   - the parallel validator               (src/03_parallelization.ipynb)  *)
(*   - the confidence router                (src/unnamed/part_001)          *)
(* Every call of client.beta.chat.completions.parse is recorded in `calls` *)
(* (the call-count instrumentation); the generation service answers each   *)
(* call in flight with a parsed result, a refusal (parsed = None) or one   *)
(* of the typed errors.  The knowledge lookup search_kb of the intro        *)
(* notebook (src/00_intro.ipynb) reads the file kb.json, and the loop of    *)
(* that notebook runs the tool calls of a completion.  A session is a      *)
(* sequence of invocations made from the same kernel: the module-level     *)
(* objects and the event loop are kept.                                    *)
(*                                                                         *)
(* Confidence scores are floats in the code; the model keeps them in       *)
(* thousandths (0.7 is 700), which is exact for every comparison made.     *)
(***************************************************************************)
EXTENDS Integers, Sequences, FiniteSets, TLC

VARIABLES
    pc,                 \* position of the invocation's main coroutine / function
    user_input,         \* the argument of the invocation
    calls,              \* every structured call issued so far, in issue order
    outcome,            \* what the invocation delivered to its caller
    log,                \* records emitted through `logger` (level INFO and above)
    initial_extraction, \* chain: local of process_calendar_request
    event_details,      \* chain: local of process_calendar_request
    task,               \* validator: the two tasks asyncio.gather wraps
    outer,              \* validator: the future asyncio.gather returns
    order,              \* validator: branches in the order they completed
    ready,              \* validator: callbacks the event loop is yet to run, oldest first
    route_result,       \* router: local of process_calendar_request
    invocation,         \* session: number of the invocation under way
    stale,              \* session: calls of earlier invocations still in flight
    kb_file,            \* knowledge lookup: the file kb.json on disk
    lookups,            \* knowledge lookup: every search_kb call with what it gave
    messages,           \* tool loop: the list `messages` of the notebook
    completion,         \* tool loop: the completion whose tool calls are run
    call_function_for,  \* tool loop: the tool the current call_function knows
    tool_pc,            \* tool loop: position of the cell that runs the loop
    tool_index,         \* tool loop: iterations of the loop completed
    tool_outcome        \* tool loop: how the cell ended

vars == <<pc, user_input, calls, outcome, log, initial_extraction,
          event_details, task, outer, order, ready, route_result, invocation, stale,
          kb_file, lookups, messages, completion, call_function_for, tool_pc,
          tool_index, tool_outcome>>

chainVars == <<initial_extraction, event_details>>
validatorVars == <<task, outer, order, ready>>
routerVars == <<route_result>>
sessionVars == <<invocation, stale>>
toolVars == <<messages, completion, call_function_for, tool_pc, tool_index, tool_outcome>>
introVars == <<kb_file, lookups, toolVars>>

\* what an invocation reads and writes
localVars == <<pc, user_input, calls, outcome, log, chainVars, validatorVars, routerVars>>

-----------------------------------------------------------------------------
(* Bounds of the model *)

NumTexts == 2
MaxInvocations == 2
MaxRecords == 2
MaxLookups == 3
MaxToolCalls == 2
MaxFlags == 1

-----------------------------------------------------------------------------
(* Python values *)

NoneValue == [type |-> "NoneType"]
Bool(b) == [type |-> "bool", val |-> b]
Str(i) == [type |-> "str", id |-> i]

Texts == {Str(i) : i \in 1..NumTexts}

\* confidence_score: float, unvalidated; thousandths
ConfidenceScores == {-100, 0, 699, 700, 701, 900, 1000, 1500}

\* f"{x:.2f}": thousandths rounded to hundredths (no value of
\* ConfidenceScores lies on a tie)
Format2f(x) == IF x >= 0 THEN (x + 5) \div 10 ELSE -((5 - x) \div 10)

\* The typed failures of a structured call
GatewayErrors == {"ServiceUnavailable", "ContentPolicyViolation", "SchemaViolation"}

\* What the generation service can answer to a call whose response_format
\* has the instances `contract`: message.parsed is an instance, or None on a
\* refusal, or parse() raises.
Responses(contract) ==
    [kind : {"parsed"}, parsed : contract]
        \cup {[kind |-> "refusal"]}
        \cup [kind : {"error"}, error : GatewayErrors]

\* variant: the parsed message is dropped
Parsed_Dropped(resp) == NoneValue

\* completion.choices[0].message.parsed
Parsed(resp) == IF resp.kind = "parsed" THEN resp.parsed ELSE NoneValue

Pending == [kind |-> "pending"]
Return(v) == [kind |-> "return", value |-> v]
Raise(e) == [kind |-> "raise", error |-> e]

\* variant: the exception of parse() is caught and None returned in its place
Propagate_Swallowed(e) == [kind |-> "return", value |-> NoneValue]

\* variant: the exception of parse() is caught and raised again as another
Propagate_Reinterpreted(e) == [kind |-> "raise", error |-> "RuntimeError"]

\* an exception raised by parse() is caught nowhere in the notebook: it leaves
\* process_calendar_request unchanged
Propagate(e) == Raise(e)

LogRecord(level, msg, args) == [level |-> level, msg |-> msg, args |-> args]

\* client.beta.chat.completions.parse(messages=[system, user], response_format=...)
Request(site, user, contract) ==
    [site |-> site, user |-> user, contract |-> contract, status |-> "inflight",
     response |-> NoneValue]

Issue(site, user, contract) == Append(calls, Request(site, user, contract))

\* variant: the call is not awaited, it stays in flight while the caller goes on
Resolved_NotAwaited(k, resp) == calls

\* the call at index k of `calls` resolves with the answer resp
Resolved(k, resp) ==
    [calls EXCEPT ![k].status = IF resp.kind = "error" THEN "failed" ELSE "ok",
                  ![k].response = resp]

InFlight == {k \in DOMAIN calls : calls[k].status = "inflight"}

\* the coroutines handed to asyncio.gather, in registration order
Branches == <<"calendar", "security">>
BranchNames == {"calendar", "security"}

\* a task that does not exist (yet)
\* (`notified`: gather's done callback for the task has run)
NoTask ==
    [state |-> "none", call |-> 0, result |-> NoneValue, error |-> "",
     notified |-> FALSE]

-----------------------------------------------------------------------------
(* Knowledge lookup of the intro notebook *)

\* an entry of the knowledge base
KbRecords == [id : {1}, question : Texts, answer : Texts]

KbRecordLists == UNION {[1..n -> KbRecords] : n \in 0..MaxRecords}

\* open("kb.json") fails: there is no such file
MissingFile == [state |-> "missing"]

\* what can be on disk under the name kb.json: a JSON text holding the
\* records, a text that is not JSON, or nothing
KbFiles ==
    [state : {"json"}, records : KbRecordLists]
        \cup {[state |-> "invalid"], MissingFile}

\* json.load(f): the document the text encodes
JsonLoad(file) == [type |-> "dict", records |-> file.records]

\* variant: only the records whose question is the one asked are returned
search_kb_Filtered(question, file) ==
    IF file.state = "missing" THEN Raise("FileNotFoundError")
    ELSE IF file.state = "invalid" THEN Raise("JSONDecodeError")
    ELSE Return([type |-> "dict",
                 records |-> SelectSeq(file.records,
                                       LAMBDA r : r.question = question)])

\* search_kb(question) with `file` under the name kb.json: the whole
\* document, whatever the question
search_kb(question, file) ==
    IF file.state = "missing" THEN Raise("FileNotFoundError")
    ELSE IF file.state = "invalid" THEN Raise("JSONDecodeError")
    ELSE Return(JsonLoad(file))

-----------------------------------------------------------------------------
(* Prompt chain: output contracts *)

EventExtraction ==
    [type : {"EventExtraction"}, description : Texts,
     is_calendar_event : BOOLEAN, confidence_score : ConfidenceScores]

Participants == {<<>>, <<"Alice", "Bob">>}

EventDetails ==
    [type : {"EventDetails"}, name : Texts, date : {"2025-03-18T14:00:00"},
     duration_minutes : {60}, participants : Participants]

EventConfirmation ==
    [type : {"EventConfirmation"}, confirmation_message : Texts,
     calendar_link : {NoneValue} \cup Texts]

\* str(event_details.model_dump()): the repr of the dict of the four fields
ModelDumpStr(d) ==
    [type |-> "str",
     dump |-> <<d.name, d.date, d.duration_minutes, d.participants>>]

\* the gate of process_calendar_request: TRUE when the request is rejected
ChainThreshold == 700

\* variant: the two conditions of the gate joined by `and`
GateFails_And(extraction) ==
    (~extraction.is_calendar_event)
        /\ extraction.confidence_score < ChainThreshold

\* variant: the threshold taken as an exclusive bound
GateFails_Exclusive(extraction) ==
    (~extraction.is_calendar_event)
        \/ extraction.confidence_score <= ChainThreshold

GateFails(extraction) ==
    (~extraction.is_calendar_event)
        \/ extraction.confidence_score < ChainThreshold

\* variant: stage 2 is handed the raw request again
Stage2Input_Raw(extraction) == user_input

\* the user message of stage 2
Stage2Input(extraction) == extraction.description

\* the user message of stage 3
Stage3Input(details) == ModelDumpStr(details)

ChainInit ==
    /\ pc = "idle"
    /\ user_input = NoneValue
    /\ calls = <<>>
    /\ outcome = Pending
    /\ log = <<>>
    /\ initial_extraction = NoneValue
    /\ event_details = NoneValue
    /\ task = [b \in BranchNames |-> NoTask]
    /\ outer = Pending
    /\ order = <<>>
    /\ ready = <<>>
    /\ route_result = NoneValue
    /\ invocation = 1
    /\ stale = [b \in BranchNames |-> 0]
    /\ kb_file = MissingFile
    /\ lookups = <<>>
    /\ messages = <<>>
    /\ completion = NoneValue
    /\ call_function_for = "search_kb"
    /\ tool_pc = "idle"
    /\ tool_index = 0
    /\ tool_outcome = Pending

\* process_calendar_request(user_input) is entered and runs up to the
\* request of extract_event_info
process_calendar_request(u) ==
    /\ pc = "idle"
    /\ user_input' = u
    /\ log' = log \o <<LogRecord("INFO", "Processing calendar request", <<>>),
                       LogRecord("INFO", "Starting event extraction analysis", <<>>)>>
    /\ calls' = Issue("extract_event_info", u, "EventExtraction")
    /\ pc' = "extract_event_info"
    /\ UNCHANGED <<outcome, chainVars, validatorVars, routerVars, sessionVars, introVars>>

\* the stage-1 call resolves: extract_event_info returns (or raises), then
\* the gate check, then the request of parse_event_details
extract_event_info(resp) ==
    /\ pc = "extract_event_info"
    /\ calls' = IF resp.kind = "parsed" /\ ~GateFails(resp.parsed)
                THEN Append(Resolved(Len(calls), resp),
                            Request("parse_event_details",
                                    Stage2Input(resp.parsed), "EventDetails"))
                ELSE Resolved(Len(calls), resp)
    /\ \/ /\ resp.kind = "error"
          /\ outcome' = Propagate(resp.error)
          /\ pc' = "done"
          /\ UNCHANGED <<log, initial_extraction>>
       \/ /\ resp.kind = "refusal"
          \* result is None: the f-string of logger.info reads result.is_calendar_event
          /\ outcome' = Raise("AttributeError")
          /\ pc' = "done"
          /\ UNCHANGED <<log, initial_extraction>>
       \/ /\ resp.kind = "parsed"
          /\ GateFails(resp.parsed)
          /\ initial_extraction' = resp.parsed
          /\ log' = log \o
                <<LogRecord("INFO", "Extraction complete",
                            <<resp.parsed.is_calendar_event,
                              Format2f(resp.parsed.confidence_score)>>),
                  LogRecord("WARNING", "Gate check failed",
                            <<resp.parsed.is_calendar_event,
                              Format2f(resp.parsed.confidence_score)>>)>>
          /\ outcome' = Return(NoneValue)
          /\ pc' = "done"
       \/ /\ resp.kind = "parsed"
          /\ ~GateFails(resp.parsed)
          /\ initial_extraction' = resp.parsed
          /\ log' = log \o
                <<LogRecord("INFO", "Extraction complete",
                            <<resp.parsed.is_calendar_event,
                              Format2f(resp.parsed.confidence_score)>>),
                  LogRecord("INFO", "Gate check passed, proceeding with event processing", <<>>),
                  LogRecord("INFO", "Starting event details parsing", <<>>)>>
          /\ pc' = "parse_event_details"
          /\ UNCHANGED outcome
    /\ UNCHANGED <<user_input, event_details, validatorVars, routerVars, sessionVars, introVars>>

\* the stage-2 call resolves: parse_event_details returns (or raises), then
\* the request of generate_confirmation
parse_event_details(resp) ==
    /\ pc = "parse_event_details"
    /\ calls' = IF resp.kind = "parsed"
                THEN Append(Resolved(Len(calls), resp),
                            Request("generate_confirmation",
                                    Stage3Input(resp.parsed), "EventConfirmation"))
                ELSE Resolved(Len(calls), resp)
    /\ \/ /\ resp.kind = "error"
          /\ outcome' = Propagate(resp.error)
          /\ pc' = "done"
          /\ UNCHANGED <<log, event_details>>
       \/ /\ resp.kind = "refusal"
          \* result is None: the f-string of logger.info reads result.name
          /\ outcome' = Raise("AttributeError")
          /\ pc' = "done"
          /\ UNCHANGED <<log, event_details>>
       \/ /\ resp.kind = "parsed"
          /\ event_details' = resp.parsed
          /\ log' = log \o
                <<LogRecord("INFO", "Parsed event details",
                            <<resp.parsed.name, resp.parsed.date,
                              resp.parsed.duration_minutes>>),
                  LogRecord("INFO", "Generating confirmation message", <<>>)>>
          /\ pc' = "generate_confirmation"
          /\ UNCHANGED outcome
    /\ UNCHANGED <<user_input, initial_extraction, validatorVars, routerVars, sessionVars, introVars>>

\* the stage-3 call resolves: generate_confirmation returns message.parsed
\* (it reads no field of it), and process_calendar_request returns that value
generate_confirmation(resp) ==
    /\ pc = "generate_confirmation"
    /\ calls' = Resolved(Len(calls), resp)
    /\ \/ /\ resp.kind = "error"
          /\ outcome' = Propagate(resp.error)
          /\ UNCHANGED log
       \/ /\ resp.kind # "error"
          /\ log' = log \o
                <<LogRecord("INFO", "Confirmation message generated successfully", <<>>),
                  LogRecord("INFO", "Calendar request processing completed successfully", <<>>)>>
          /\ outcome' = Return(Parsed(resp))
    /\ pc' = "done"
    /\ UNCHANGED <<user_input, chainVars, validatorVars, routerVars, sessionVars, introVars>>

ChainNext ==
    \/ \E u \in Texts : process_calendar_request(u)
    \/ \E resp \in Responses(EventExtraction) : extract_event_info(resp)
    \/ \E resp \in Responses(EventDetails) : parse_event_details(resp)
    \/ \E resp \in Responses(EventConfirmation) : generate_confirmation(resp)

ChainSpec == ChainInit /\ [][ChainNext]_vars

-----------------------------------------------------------------------------
(* Parallel validator: output contracts *)

CalendarValidation ==
    [type : {"CalendarValidation"}, is_calendar_request : BOOLEAN,
     confidence_score : ConfidenceScores]

RiskFlagNames == {"jailbreak", "prompt_injection"}

\* list[str] of at most MaxFlags entries
FlagLists == UNION {[1..n -> RiskFlagNames] : n \in 0..MaxFlags}

SecurityCheck ==
    [type : {"SecurityCheck"}, is_safe : BOOLEAN, risk_flags : FlagLists]

BranchSite(b) ==
    IF b = "calendar" THEN "validate_calendar_request" ELSE "check_security"

BranchContract(b) ==
    IF b = "calendar" THEN CalendarValidation ELSE SecurityCheck

BranchContractName(b) ==
    IF b = "calendar" THEN "CalendarValidation" ELSE "SecurityCheck"

\* the argument validate_request passes to branch b
BranchInput(b, u) == u

\* variant: each branch waits for the other one to have started
CanStart_CircularWait(b) ==
    /\ task[b].state = "created"
    /\ \A c \in BranchNames \ {b} : task[c].state # "created"

\* variant: a branch whose call failed sends it again
CanStart_Retry(b) ==
    /\ task[b].state \in {"created", "raised"}
    /\ b = "security" => task["calendar"].state # "created"

\* A task runs its first step (up to the await of parse) when the event loop
\* reaches it: tasks are created, and so started, in registration order.
CanStart(b) ==
    /\ task[b].state = "created"
    /\ b = "security" => task["calendar"].state # "created"

\* variant: a branch is awaited to its end before the next one is started
CanResolve_Sequential(b) == task[b].state = "inflight"

\* The response to the call of branch b can be handled: the first steps of
\* both tasks were queued by gather before validate_request suspended, and
\* the event loop runs what is queued before it polls for responses.
CanResolve(b) ==
    /\ task[b].state = "inflight"
    /\ \A c \in BranchNames : task[c].state # "created"

\* every child had its done callback run: nfinished == nfuts
AllNotified(t) == \A c \in BranchNames : t[c].notified

\* the list gather delivers: the results of the children in registration order
GatherResults(t) ==
    [kind |-> "result",
     value |-> [i \in 1..Len(Branches) |-> t[Branches[i]].result]]

\* the exception gather sets on the outer future for child b
ChildException(t, b) ==
    IF t[b].state = "cancelled"
    THEN [kind |-> "exception", error |-> "CancelledError"]
    ELSE [kind |-> "exception", error |-> t[b].error]

\* asyncio.gather(...) without return_exceptions: what _done_callback of
\* child b makes of the outer future `o`; `t` is the tasks with the callback
\* of b counted.
\* variant: the outer future resolves with the first child that returns
\* (a race), the missing results left as None
GatherDoneCallback_Race(o, t, b) ==
    IF o.kind # "pending" THEN o
    ELSE IF t[b].state \in {"raised", "cancelled"} THEN ChildException(t, b)
    ELSE GatherResults(t)

\* variant: return_exceptions=True, a child's exception is delivered as its result
GatherDoneCallback_ReturnExceptions(o, t, b) ==
    IF o.kind # "pending" THEN o
    ELSE IF AllNotified(t)
         THEN [kind |-> "result",
               value |-> [i \in 1..Len(Branches) |->
                            IF t[Branches[i]].state \in {"raised", "cancelled"}
                            THEN [type |-> "Exception",
                                  error |-> ChildException(t, Branches[i]).error]
                            ELSE t[Branches[i]].result]]
    ELSE o

\* variant: the exception of a child is delivered once every child is done
GatherDoneCallback_WaitAll(o, t, b) ==
    IF o.kind # "pending" THEN o
    ELSE IF ~AllNotified(t) THEN o
    ELSE IF t[b].state \in {"raised", "cancelled"} THEN ChildException(t, b)
    ELSE IF \E c \in BranchNames : t[c].state \in {"raised", "cancelled"}
         THEN ChildException(t, CHOOSE c \in BranchNames :
                                    t[c].state \in {"raised", "cancelled"})
    ELSE GatherResults(t)

\* _done_callback(fut) of gather: nothing when the outer future is done; the
\* CancelledError of a cancelled child or the exception of a failed one at
\* once; the list of results when this was the last child to be counted
GatherDoneCallback(o, t, b) ==
    IF o.kind # "pending" THEN o
    ELSE IF t[b].state \in {"raised", "cancelled"} THEN ChildException(t, b)
    ELSE IF AllNotified(t) THEN GatherResults(t)
    ELSE o

\* variant: the children still running are cancelled when child b raises
\* (the behaviour of a task group)
GatherSiblings_Cancel(t, b) ==
    IF t[b].state = "raised"
    THEN [c \in BranchNames |->
            IF t[c].state \in {"created", "inflight"}
            THEN [t[c] EXCEPT !.state = "cancelled"]
            ELSE t[c]]
    ELSE t

\* asyncio.gather leaves the other children alone when child b completes
GatherSiblings(t, b) == t

\* is_valid of validate_request
ValidatorThreshold == 700

\* variant: the security verdict left out of the conjunction
is_valid_NoSecurity(calendar_check, security_check) ==
    /\ calendar_check.is_calendar_request
    /\ calendar_check.confidence_score > ValidatorThreshold

\* variant: a request with risk flags is not valid
is_valid_NoFlagsAllowed(calendar_check, security_check) ==
    /\ calendar_check.is_calendar_request
    /\ calendar_check.confidence_score > ValidatorThreshold
    /\ security_check.is_safe
    /\ security_check.risk_flags = <<>>

is_valid(calendar_check, security_check) ==
    /\ calendar_check.is_calendar_request
    /\ calendar_check.confidence_score > ValidatorThreshold
    /\ security_check.is_safe

\* the warnings validate_request logs for a verdict
ValidationWarnings(valid, calendar_check, security_check) ==
    IF valid THEN <<>>
    ELSE <<LogRecord("WARNING", "Validation failed",
                     <<calendar_check.is_calendar_request, security_check.is_safe>>)>>
         \o (IF security_check.risk_flags # <<>>
             THEN <<LogRecord("WARNING", "Security flags",
                              <<security_check.risk_flags>>)>>
             ELSE <<>>)

ValidatorInit ==
    /\ pc = "idle"
    /\ user_input = NoneValue
    /\ calls = <<>>
    /\ outcome = Pending
    /\ log = <<>>
    /\ initial_extraction = NoneValue
    /\ event_details = NoneValue
    /\ task = [b \in BranchNames |-> NoTask]
    /\ outer = Pending
    /\ order = <<>>
    /\ ready = <<>>
    /\ route_result = NoneValue
    /\ invocation = 1
    /\ stale = [b \in BranchNames |-> 0]
    /\ kb_file = MissingFile
    /\ lookups = <<>>
    /\ messages = <<>>
    /\ completion = NoneValue
    /\ call_function_for = "search_kb"
    /\ tool_pc = "idle"
    /\ tool_index = 0
    /\ tool_outcome = Pending

\* validate_request(user_input) is entered: gather wraps both coroutines in
\* tasks and validate_request awaits the outer future
validate_request(u) ==
    /\ pc = "idle"
    /\ user_input' = u
    /\ task' = [b \in BranchNames |-> [NoTask EXCEPT !.state = "created"]]
    /\ pc' = "gather"
    /\ UNCHANGED <<calls, outcome, log, chainVars, routerVars, outer, order, ready,
                   sessionVars, introVars>>

\* first step of validate_calendar_request / check_security: the request of
\* the branch is sent and the task suspends on it
branch_call(b) ==
    /\ CanStart(b)
    /\ calls' = Issue(BranchSite(b), BranchInput(b, user_input), BranchContractName(b))
    /\ task' = [task EXCEPT ![b].state = "inflight", ![b].call = Len(calls) + 1]
    /\ UNCHANGED <<pc, user_input, outcome, log, chainVars, routerVars, outer, order, ready,
                   sessionVars, introVars>>

\* the call of branch b resolves: the task resumes and returns
\* message.parsed or raises; its done callback, the one gather added, is
\* scheduled (call_soon) and runs later
branch_done(b, resp) ==
    /\ CanResolve(b)
    /\ calls' = Resolved(task[b].call, resp)
    /\ task' = IF resp.kind = "error"
               THEN [task EXCEPT ![b].state = "raised", ![b].error = resp.error]
               ELSE [task EXCEPT ![b].state = "returned", ![b].result = Parsed(resp)]
    /\ order' = Append(order, b)
    /\ ready' = Append(ready, b)
    /\ UNCHANGED <<pc, user_input, outcome, log, chainVars, routerVars, outer,
                   sessionVars, introVars>>

\* the event loop runs the oldest callback, gather's _done_callback of a
\* child that completed; settling the outer future schedules the wakeup
\* of validate_request
gather_done_callback ==
    /\ ready # <<>>
    /\ Head(ready) \in BranchNames
    /\ LET b == Head(ready)
           counted == [task EXCEPT ![b].notified = TRUE]
           settled == GatherDoneCallback(outer, counted, b)
       IN /\ outer' = settled
          /\ task' = GatherSiblings(counted, b)
          /\ ready' = IF outer.kind = "pending" /\ settled.kind # "pending"
                      THEN Append(Tail(ready), "validate_request")
                      ELSE Tail(ready)
    /\ UNCHANGED <<pc, user_input, calls, outcome, log, chainVars, routerVars, order,
                   sessionVars, introVars>>

\* the event loop runs the oldest callback, the wakeup of validate_request:
\* it resumes from `await asyncio.gather(...)`
validate_request_resume ==
    /\ pc = "gather"
    /\ ready # <<>>
    /\ Head(ready) = "validate_request"
    /\ ready' = Tail(ready)
    /\ pc' = "done"
    /\ order' = Append(order, "validate_request")
    /\ LET calendar_check == outer.value[1]
           security_check == outer.value[2]
       IN \/ /\ outer.kind = "exception"
             /\ outcome' = Propagate(outer.error)
             /\ UNCHANGED log
          \/ /\ outer.kind = "result"
             \* a branch that returned None: reading a field of it raises
             /\ \/ calendar_check.type # "CalendarValidation"
                \/ security_check.type # "SecurityCheck"
             /\ outcome' = Raise("AttributeError")
             /\ UNCHANGED log
          \/ /\ outer.kind = "result"
             /\ calendar_check.type = "CalendarValidation"
             /\ security_check.type = "SecurityCheck"
             /\ log' = log \o ValidationWarnings(is_valid(calendar_check, security_check),
                                                 calendar_check, security_check)
             /\ outcome' = Return(Bool(is_valid(calendar_check, security_check)))
    /\ UNCHANGED <<user_input, calls, chainVars, routerVars, task, outer, sessionVars, introVars>>

ValidatorNext ==
    \/ \E u \in Texts : validate_request(u)
    \/ \E b \in BranchNames : branch_call(b)
    \/ \E b \in BranchNames : \E resp \in Responses(BranchContract(b)) : branch_done(b, resp)
    \/ gather_done_callback
    \/ validate_request_resume

ValidatorSpec == ValidatorInit /\ [][ValidatorNext]_vars

\* every request sent is answered (the client bounds each request by its
\* timeout), and the event loop keeps running the coroutine that can resume
ValidatorFairSpec ==
    /\ ValidatorSpec
    /\ WF_vars(\E b \in BranchNames : \E resp \in Responses(BranchContract(b)) : branch_done(b, resp))
    /\ WF_vars(\E b \in BranchNames : branch_call(b))
    /\ WF_vars(gather_done_callback)
    /\ WF_vars(validate_request_resume)

-----------------------------------------------------------------------------
(* Confidence router: output contracts *)

RequestTypes == {"new_event", "modify_event", "other"}

CalendarRequestType ==
    [type : {"CalendarRequestType"}, request_type : RequestTypes,
     confidence_score : ConfidenceScores, description : Texts]

NewEventDetails ==
    [type : {"NewEventDetails"}, name : Texts, date : {"2023-10-31T14:00:00"},
     duration_minutes : {60}, participants : Participants]

Changes == {<<>>, <<[field |-> "time", new_value |-> "Wednesday at 3pm"]>>}

ModifyEventDetails ==
    [type : {"ModifyEventDetails"}, event_identifier : Texts, changes : Changes,
     participants_to_add : {<<>>}, participants_to_remove : {<<>>, <<"Bob">>}]

Handlers == {"handle_new_event", "handle_modify_event"}

RouterSites == {"route_calendar_request"} \cup Handlers

SiteContract(site) ==
    CASE site = "route_calendar_request" -> CalendarRequestType
      [] site = "handle_new_event" -> NewEventDetails
      [] site = "handle_modify_event" -> ModifyEventDetails

SiteContractName(site) ==
    CASE site = "route_calendar_request" -> "CalendarRequestType"
      [] site = "handle_new_event" -> "NewEventDetails"
      [] site = "handle_modify_event" -> "ModifyEventDetails"

\* the logger.info at the head of each function
SiteEntryLog(site) ==
    CASE site = "route_calendar_request" ->
            LogRecord("INFO", "Routing calendar request", <<>>)
      [] site = "handle_new_event" ->
            LogRecord("INFO", "Processing new event request", <<>>)
      [] site = "handle_modify_event" ->
            LogRecord("INFO", "Processing event modification request", <<>>)

\* ', '.join(parts)
Join(parts) == [type |-> "str", sep |-> ", ", parts |-> parts]

\* an f-string: the template with the values of its replacement fields
FString(template, args) == [type |-> "str", template |-> template, args |-> args]

\* variant: an event nobody takes part in is reported as not created
NewEventResponse_Unattended(details) ==
    [type |-> "CalendarResponse",
     success |-> details.participants # <<>>,
     message |-> FString("Created new event '{name}' for {date} with {participants}",
                         <<details.name, details.date, Join(details.participants)>>),
     calendar_link |-> IF details.participants # <<>>
                       THEN FString("calendar://new?event={name}", <<details.name>>)
                       ELSE NoneValue]

\* the CalendarResponse handle_new_event builds
NewEventResponse(details) ==
    [type |-> "CalendarResponse",
     success |-> TRUE,
     message |-> FString("Created new event '{name}' for {date} with {participants}",
                         <<details.name, details.date, Join(details.participants)>>),
     calendar_link |-> FString("calendar://new?event={name}", <<details.name>>)]

\* the CalendarResponse handle_modify_event builds
ModifyEventResponse(details) ==
    [type |-> "CalendarResponse",
     success |-> TRUE,
     message |-> FString("Modified event '{event_identifier}' with the requested changes",
                         <<details.event_identifier>>),
     calendar_link |-> FString("calendar://modify?event={event_identifier}",
                               <<details.event_identifier>>)]

\* logger.info(f"New event: {details.model_dump_json(indent=2)}") and its twin
HandlerLog(h, details) ==
    LogRecord("INFO",
              IF h = "handle_new_event" THEN "New event" ELSE "Modified event",
              <<details>>)

\* the confidence threshold of process_calendar_request
RouterThreshold == 700

\* variant: the threshold taken as an exclusive bound
LowConfidence_Exclusive(route) == route.confidence_score <= RouterThreshold

LowConfidence(route) == route.confidence_score < RouterThreshold

\* variant: the two handlers exchanged
Dispatch_Swapped(route) ==
    IF LowConfidence(route) THEN "low_confidence"
    ELSE IF route.request_type = "new_event" THEN "handle_modify_event"
    ELSE IF route.request_type = "modify_event" THEN "handle_new_event"
    ELSE "not_supported"

\* variant: the final else falls through to the new-event handler
Dispatch_OtherAsNewEvent(route) ==
    IF LowConfidence(route) THEN "low_confidence"
    ELSE IF route.request_type = "modify_event" THEN "handle_modify_event"
    ELSE "handle_new_event"

\* variant: a low confidence makes the router classify again
Dispatch_Retry(route) ==
    IF LowConfidence(route) THEN "route_calendar_request"
    ELSE IF route.request_type = "new_event" THEN "handle_new_event"
    ELSE IF route.request_type = "modify_event" THEN "handle_modify_event"
    ELSE "not_supported"

\* variant: the category is looked at before the confidence
Dispatch_CategoryFirst(route) ==
    IF route.request_type \notin {"new_event", "modify_event"} THEN "not_supported"
    ELSE IF LowConfidence(route) THEN "low_confidence"
    ELSE IF route.request_type = "new_event" THEN "handle_new_event"
    ELSE "handle_modify_event"

\* what process_calendar_request does with the classification: the handler
\* it calls, or the reason it returns None
Dispatch(route) ==
    IF LowConfidence(route) THEN "low_confidence"
    ELSE IF route.request_type = "new_event" THEN "handle_new_event"
    ELSE IF route.request_type = "modify_event" THEN "handle_modify_event"
    ELSE "not_supported"

\* the warning logged when process_calendar_request returns None
RejectionLog(reason, route) ==
    IF reason = "low_confidence"
    THEN LogRecord("WARNING", "Low confidence score", <<route.confidence_score>>)
    ELSE LogRecord("WARNING", "Request type not supported", <<>>)

\* variant: the handler is handed the raw request
HandlerInput_Raw(route) == user_input

\* the user message of a handler's call
HandlerInput(route) == route.description

\* the user message of the call made at `site`
SiteInput(site, route) ==
    IF site = "route_calendar_request" THEN user_input ELSE HandlerInput(route)

\* variant: the new-event handler goes on to call the modify handler
HandlerFollowUp_Chained(h) ==
    IF h = "handle_new_event" THEN "handle_modify_event" ELSE "return"

\* what a handler does after its one call: it builds the response and returns
HandlerFollowUp(h) == "return"

RouterInit ==
    /\ pc = "idle"
    /\ user_input = NoneValue
    /\ calls = <<>>
    /\ outcome = Pending
    /\ log = <<>>
    /\ initial_extraction = NoneValue
    /\ event_details = NoneValue
    /\ task = [b \in BranchNames |-> NoTask]
    /\ outer = Pending
    /\ order = <<>>
    /\ ready = <<>>
    /\ route_result = NoneValue
    /\ invocation = 1
    /\ stale = [b \in BranchNames |-> 0]
    /\ kb_file = MissingFile
    /\ lookups = <<>>
    /\ messages = <<>>
    /\ completion = NoneValue
    /\ call_function_for = "search_kb"
    /\ tool_pc = "idle"
    /\ tool_index = 0
    /\ tool_outcome = Pending

\* process_calendar_request(user_input) of the routing notebook is entered
\* and runs up to the request of route_calendar_request
router_process_calendar_request(u) ==
    /\ pc = "idle"
    /\ user_input' = u
    /\ log' = log \o <<LogRecord("INFO", "Processing calendar request", <<>>),
                       SiteEntryLog("route_calendar_request")>>
    /\ calls' = Issue("route_calendar_request", u, "CalendarRequestType")
    /\ pc' = "route_calendar_request"
    /\ UNCHANGED <<outcome, chainVars, validatorVars, routerVars, sessionVars, introVars>>

\* the classification call resolves: route_calendar_request returns (or
\* raises), then the confidence check and the dispatch, up to the request of
\* the handler chosen
route_calendar_request(resp) ==
    /\ pc = "route_calendar_request"
    /\ IF resp.kind = "error"
       THEN /\ calls' = Resolved(Len(calls), resp)
            /\ outcome' = Propagate(resp.error)
            /\ pc' = "done"
            /\ UNCHANGED <<log, route_result>>
       ELSE IF resp.kind = "refusal"
       \* result is None: the f-string of logger.info reads result.request_type
       THEN /\ calls' = Resolved(Len(calls), resp)
            /\ outcome' = Raise("AttributeError")
            /\ pc' = "done"
            /\ UNCHANGED <<log, route_result>>
       ELSE LET route == resp.parsed
                step == Dispatch(route)
                routed == LogRecord("INFO", "Request routed as",
                                    <<route.request_type, route.confidence_score>>)
            IN /\ route_result' = route
               /\ IF step \in RouterSites
                  THEN /\ calls' = Append(Resolved(Len(calls), resp),
                                          Request(step, SiteInput(step, route),
                                                  SiteContractName(step)))
                       /\ log' = log \o <<routed, SiteEntryLog(step)>>
                       /\ pc' = step
                       /\ UNCHANGED outcome
                  ELSE /\ calls' = Resolved(Len(calls), resp)
                       /\ log' = log \o <<routed, RejectionLog(step, route)>>
                       /\ outcome' = Return(NoneValue)
                       /\ pc' = "done"
    /\ UNCHANGED <<user_input, chainVars, validatorVars, sessionVars, introVars>>

\* the call of handle_new_event resolves: the handler builds its CalendarResponse
\* and process_calendar_request returns it
handle_new_event(resp) ==
    /\ pc = "handle_new_event"
    /\ IF resp.kind = "error"
       THEN /\ calls' = Resolved(Len(calls), resp)
            /\ outcome' = Propagate(resp.error)
            /\ pc' = "done"
            /\ UNCHANGED log
       ELSE IF resp.kind = "refusal"
       \* details is None: the f-string of logger.info reads details.model_dump_json
       THEN /\ calls' = Resolved(Len(calls), resp)
            /\ outcome' = Raise("AttributeError")
            /\ pc' = "done"
            /\ UNCHANGED log
       ELSE LET step == HandlerFollowUp("handle_new_event")
                dump == HandlerLog("handle_new_event", resp.parsed)
            IN IF step \in RouterSites
               THEN /\ calls' = Append(Resolved(Len(calls), resp),
                                       Request(step, SiteInput(step, route_result),
                                               SiteContractName(step)))
                    /\ log' = log \o <<dump, SiteEntryLog(step)>>
                    /\ pc' = step
                    /\ UNCHANGED outcome
               ELSE /\ calls' = Resolved(Len(calls), resp)
                    /\ log' = log \o <<dump>>
                    /\ outcome' = Return(NewEventResponse(resp.parsed))
                    /\ pc' = "done"
    /\ UNCHANGED <<user_input, chainVars, validatorVars, routerVars, sessionVars, introVars>>

\* the call of handle_modify_event resolves: the handler builds its
\* CalendarResponse and process_calendar_request returns it
handle_modify_event(resp) ==
    /\ pc = "handle_modify_event"
    /\ IF resp.kind = "error"
       THEN /\ calls' = Resolved(Len(calls), resp)
            /\ outcome' = Propagate(resp.error)
            /\ pc' = "done"
            /\ UNCHANGED log
       ELSE IF resp.kind = "refusal"
       \* details is None: the f-string of logger.info reads details.model_dump_json
       THEN /\ calls' = Resolved(Len(calls), resp)
            /\ outcome' = Raise("AttributeError")
            /\ pc' = "done"
            /\ UNCHANGED log
       ELSE LET step == HandlerFollowUp("handle_modify_event")
                dump == HandlerLog("handle_modify_event", resp.parsed)
            IN IF step \in RouterSites
               THEN /\ calls' = Append(Resolved(Len(calls), resp),
                                       Request(step, SiteInput(step, route_result),
                                               SiteContractName(step)))
                    /\ log' = log \o <<dump, SiteEntryLog(step)>>
                    /\ pc' = step
                    /\ UNCHANGED outcome
               ELSE /\ calls' = Resolved(Len(calls), resp)
                    /\ log' = log \o <<dump>>
                    /\ outcome' = Return(ModifyEventResponse(resp.parsed))
                    /\ pc' = "done"
    /\ UNCHANGED <<user_input, chainVars, validatorVars, routerVars, sessionVars, introVars>>

RouterNext ==
    \/ \E u \in Texts : router_process_calendar_request(u)
    \/ \E resp \in Responses(CalendarRequestType) : route_calendar_request(resp)
    \/ \E resp \in Responses(NewEventDetails) : handle_new_event(resp)
    \/ \E resp \in Responses(ModifyEventDetails) : handle_modify_event(resp)

RouterSpec == RouterInit /\ [][RouterNext]_vars

-----------------------------------------------------------------------------
(* The three notebooks together: an invocation of any one of them *)

Init == RouterInit

Next == ChainNext \/ ValidatorNext \/ RouterNext

Spec == Init /\ [][Next]_vars

\* every request sent is answered (parse() returns or raises), a function
\* that was called runs, and the event loop keeps running the coroutine that
\* can resume
FairSpec ==
    /\ Spec
    /\ WF_vars(\E resp \in Responses(EventExtraction) : extract_event_info(resp))
    /\ WF_vars(\E resp \in Responses(EventDetails) : parse_event_details(resp))
    /\ WF_vars(\E resp \in Responses(EventConfirmation) : generate_confirmation(resp))
    /\ WF_vars(\E b \in BranchNames : \E resp \in Responses(BranchContract(b)) : branch_done(b, resp))
    /\ WF_vars(\E b \in BranchNames : branch_call(b))
    /\ WF_vars(gather_done_callback)
    /\ WF_vars(validate_request_resume)
    /\ WF_vars(\E resp \in Responses(CalendarRequestType) : route_calendar_request(resp))
    /\ WF_vars(\E resp \in Responses(NewEventDetails) : handle_new_event(resp))
    /\ WF_vars(\E resp \in Responses(ModifyEventDetails) : handle_modify_event(resp))

-----------------------------------------------------------------------------
(* Tool-calling loop of the intro notebook *)

ToolNames == {"get_weather", "search_kb", "track_order"}

\* the tools a call_function of the notebook dispatches to
DefinedTools == {"get_weather", "search_kb"}

\* tool_call.function.arguments: a JSON text of the arguments, or a text
\* that is not JSON
ArgumentDicts ==
    {[question |-> q] : q \in Texts} \cup {[latitude |-> 48, longitude |-> 2]}

ArgumentTexts == [state : {"json"}, dict : ArgumentDicts] \cup {[state |-> "invalid"]}

\* json.loads(tool_call.function.arguments)
JsonLoads(text) ==
    IF text.state = "json" THEN Return(text.dict) ELSE Raise("JSONDecodeError")

\* json.dumps(result)
JsonDumps(value) ==
    IF value = NoneValue THEN [type |-> "str", text |-> "null"]
    ELSE [type |-> "str", json |-> value]

\* the tool calls a completion can carry: the i-th one has the i-th id
ToolCallLists ==
    UNION {[1..n -> [name : ToolNames, arguments : ArgumentTexts]] : n \in 1..MaxToolCalls}

WithIds(tcs) ==
    [i \in DOMAIN tcs |->
        [id |-> [type |-> "str", call |-> i], name |-> tcs[i].name,
         arguments |-> tcs[i].arguments]]

\* completion.choices[0].message: tool_calls is a list, or None when the
\* model answered with content
Completions ==
    {[tool_calls |-> "None"]}
        \cup {[tool_calls |-> "list", list |-> WithIds(tcs)] : tcs \in ToolCallLists}

\* what get_weather can give: data["current"]; or requests.get fails
\* (ConnectionError); or response.json() fails on a body that is not JSON
\* (JSONDecodeError); or data["current"] fails, on a JSON object without
\* that key (KeyError) or on a JSON list (TypeError)
WeatherOutcomes ==
    {Return([type |-> "dict", temperature_2m |-> 13, wind_speed_10m |-> 6]),
     Raise("ConnectionError"), Raise("JSONDecodeError"), Raise("KeyError"),
     Raise("TypeError")}

\* the two entries `messages` starts with
InitialMessages ==
    <<[role |-> "system", content |-> "system_prompt"],
      [role |-> "user", content |-> "question"]>>

\* completion.choices[0].message as appended to messages
AssistantMessage(c) == [role |-> "assistant", tool_calls |-> c.list]

\* {"role": "tool", "tool_call_id": tool_call.id, "content": json.dumps(result)}
ToolMessage(tool_call, result) ==
    [role |-> "tool", tool_call_id |-> tool_call.id, content |-> JsonDumps(result)]

\* variant: a name that is not known is an error
call_function_Strict(name, args, known, file, weather) ==
    IF name # known THEN Raise("ValueError")
    ELSE IF name = "search_kb"
         THEN IF DOMAIN args = {"question"}
              THEN search_kb(args.question, file)
              ELSE Raise("TypeError")
    ELSE IF DOMAIN args = {"latitude", "longitude"} THEN weather ELSE Raise("TypeError")

\* call_function(name, args) as defined for the tool `known`: the tool is
\* called with **args; for any other name the function falls off its end
\* and gives None
call_function(name, args, known, file, weather) ==
    IF name # known THEN Return(NoneValue)
    ELSE IF name = "search_kb"
         THEN IF DOMAIN args = {"question"}
              THEN search_kb(args.question, file)
              ELSE Raise("TypeError")
    ELSE IF DOMAIN args = {"latitude", "longitude"} THEN weather ELSE Raise("TypeError")

-----------------------------------------------------------------------------
(* A session: invocations made one after the other from the same kernel *)

\* the locals of an invocation that has not started
FreshLocals ==
    /\ pc = "idle"
    /\ user_input = NoneValue
    /\ calls = <<>>
    /\ outcome = Pending
    /\ log = <<>>
    /\ initial_extraction = NoneValue
    /\ event_details = NoneValue
    /\ task = [b \in BranchNames |-> NoTask]
    /\ outer = Pending
    /\ order = <<>>
    /\ ready = <<>>
    /\ route_result = NoneValue

\* variant: the done callback of a task left over from an earlier invocation
\* reports to the gather of the invocation under way
StaleCallback_Shared(o, resp) ==
    IF o.kind = "pending" /\ resp.kind = "error"
    THEN [kind |-> "exception", error |-> resp.error]
    ELSE o

\* the done callback of a task left over from an earlier invocation belongs
\* to the gather of that invocation, whose future is done already: the
\* future `o` of the gather under way is left as it is
StaleCallback(o, resp) == o

\* the invocation has ended and its caller has its outcome: the frame is
\* dropped; a task of gather that is still running stays in the event loop.
\* The done callbacks still queued belong to the gather that is over: they
\* find its future done and change nothing, so they leave with the frame
return_to_caller ==
    /\ pc = "done"
    /\ invocation < MaxInvocations
    /\ invocation' = invocation + 1
    /\ stale' = [b \in BranchNames |->
                    stale[b] + (IF task[b].state = "inflight" THEN 1 ELSE 0)]
    /\ pc' = "idle"
    /\ user_input' = NoneValue
    /\ calls' = <<>>
    /\ outcome' = Pending
    /\ log' = <<>>
    /\ initial_extraction' = NoneValue
    /\ event_details' = NoneValue
    /\ task' = [b \in BranchNames |-> NoTask]
    /\ outer' = Pending
    /\ order' = <<>>
    /\ ready' = <<>>
    /\ route_result' = NoneValue
    /\ UNCHANGED introVars

\* the call of a task left over from an earlier invocation resolves
stale_done(b, resp) ==
    /\ stale[b] > 0
    /\ stale' = [stale EXCEPT ![b] = stale[b] - 1]
    /\ outer' = StaleCallback(outer, resp)
    /\ UNCHANGED <<pc, user_input, calls, outcome, log, chainVars, task, order, ready,
                   routerVars, invocation, introVars>>

SessionNext ==
    \/ Next
    \/ return_to_caller
    \/ \E b \in BranchNames : \E resp \in Responses(BranchContract(b)) : stale_done(b, resp)

SessionSpec == Init /\ [][SessionNext]_vars

-----------------------------------------------------------------------------
(* The knowledge lookup called again and again against one file *)

KbInit ==
    /\ FreshLocals
    /\ invocation = 1
    /\ stale = [b \in BranchNames |-> 0]
    /\ kb_file \in KbFiles
    /\ lookups = <<>>
    /\ messages = <<>>
    /\ completion = NoneValue
    /\ call_function_for = "search_kb"
    /\ tool_pc = "idle"
    /\ tool_index = 0
    /\ tool_outcome = Pending

\* search_kb(question) is called
call_search_kb(question) ==
    /\ Len(lookups) < MaxLookups
    /\ lookups' = Append(lookups, [question |-> question,
                                   result |-> search_kb(question, kb_file)])
    /\ UNCHANGED <<localVars, sessionVars, kb_file, toolVars>>

KbNext == \E question \in Texts : call_search_kb(question)

KbSpec == KbInit /\ [][KbNext]_vars

-----------------------------------------------------------------------------
(* The cells of the intro notebook that run the tool calls of a completion *)

\* the files the loop is run against
ToolKbFiles == {f \in KbFiles : f.state = "missing" \/ (f.state = "json" /\ f.records = <<>>)}

ToolInit ==
    /\ FreshLocals
    /\ invocation = 1
    /\ stale = [b \in BranchNames |-> 0]
    /\ kb_file \in ToolKbFiles
    /\ lookups = <<>>
    /\ messages = <<>>
    /\ completion = NoneValue
    /\ call_function_for = "search_kb"
    /\ tool_pc = "idle"
    /\ tool_index = 0
    /\ tool_outcome = Pending

\* messages = [system, user]; completion = client.chat.completions.create(...)
\* with call_function defined for the tool `known`
chat_completions_create(c, known) ==
    /\ tool_pc = "idle"
    /\ messages' = InitialMessages
    /\ completion' = c
    /\ call_function_for' = known
    /\ tool_pc' = "loop"
    /\ tool_index' = 0
    /\ UNCHANGED <<localVars, sessionVars, kb_file, lookups, tool_outcome>>

\* `for tool_call in completion.choices[0].message.tool_calls:` takes its
\* next element and runs the body, or ends
tool_call_loop(weather) ==
    /\ tool_pc = "loop"
    /\ IF completion.tool_calls = "None"
       \* iterating None
       THEN /\ tool_outcome' = Raise("TypeError")
            /\ tool_pc' = "done"
            /\ UNCHANGED <<messages, tool_index, lookups>>
       ELSE IF tool_index = Len(completion.list)
       THEN /\ tool_outcome' = Return(NoneValue)
            /\ tool_pc' = "done"
            /\ UNCHANGED <<messages, tool_index, lookups>>
       ELSE LET tool_call == completion.list[tool_index + 1]
                name == tool_call.name
                args == JsonLoads(tool_call.arguments)
                result == call_function(name, args.value, call_function_for,
                                        kb_file, weather)
                searched == /\ name = "search_kb"
                            /\ call_function_for = "search_kb"
                            /\ DOMAIN args.value = {"question"}
            IN IF args.kind = "raise"
               THEN /\ tool_outcome' = args
                    /\ tool_pc' = "done"
                    /\ UNCHANGED <<messages, tool_index, lookups>>
               ELSE /\ lookups' = IF searched
                                  THEN Append(lookups, [question |-> args.value.question,
                                                        result |-> result])
                                  ELSE lookups
                    /\ IF result.kind = "raise"
                       THEN /\ messages' = Append(messages, AssistantMessage(completion))
                            /\ tool_outcome' = result
                            /\ tool_pc' = "done"
                            /\ UNCHANGED tool_index
                       ELSE /\ messages' = messages \o
                                    <<AssistantMessage(completion),
                                      ToolMessage(tool_call, result.value)>>
                            /\ tool_index' = tool_index + 1
                            /\ UNCHANGED <<tool_pc, tool_outcome>>
    /\ UNCHANGED <<localVars, sessionVars, kb_file, completion, call_function_for>>

ToolNext ==
    \/ \E c \in Completions : \E known \in DefinedTools : chat_completions_create(c, known)
    \/ \E weather \in WeatherOutcomes : tool_call_loop(weather)

ToolSpec == ToolInit /\ [][ToolNext]_vars

-----------------------------------------------------------------------------
(* Properties of the prompt chain (checked under ChainSpec) *)

\* stage 1 returned an EventExtraction
Stage1Succeeded == initial_extraction # NoneValue

\* C1: whenever stage 1 resolved successfully and the gate predicate (flag
\* true and confidence at least 0.7) is false, the invocation has ended in
\* Rejected (it returned None) and exactly one structured call, the one of
\* stage 1, was issued: no detail-parsing and no confirmation call exists.
C1_GateFalseRejectsAfterOneCall ==
    (/\ Stage1Succeeded
     /\ ~(initial_extraction.is_calendar_event
            /\ initial_extraction.confidence_score >= 700))
    => /\ pc = "done"
       /\ outcome = Return(NoneValue)
       /\ Len(calls) = 1
       /\ \A k \in DOMAIN calls : calls[k].site = "extract_event_info"

\* the notebook's invalid input: flag false with confidence 0.90, rejected
C1_Witness ==
    /\ pc = "done"
    /\ Stage1Succeeded
    /\ ~initial_extraction.is_calendar_event
    /\ initial_extraction.confidence_score = 900
    /\ outcome = Return(NoneValue)
    /\ Len(calls) = 1

\* C2: for every stage-1 result the gate passes (stage 2 is issued) if and
\* only if the flag is true and the confidence is >= 0.7, and the request is
\* rejected otherwise: 0.699 is rejected, 0.7 and 0.701 pass, and a false
\* flag is rejected at every confidence.
C2_GatePassesIffFlagAndInclusiveThreshold ==
    Stage1Succeeded =>
        LET flag == initial_extraction.is_calendar_event
            confidence == initial_extraction.confidence_score
            passed == /\ Len(calls) >= 2
                      /\ calls[2].site = "parse_event_details"
            rejected == Len(calls) = 1 /\ outcome = Return(NoneValue)
        IN /\ passed <=> (flag /\ confidence >= 700)
           /\ rejected <=> ~(flag /\ confidence >= 700)
           /\ (flag /\ confidence = 699) => rejected
           /\ (flag /\ confidence \in {700, 701}) => passed
           /\ ~flag => rejected

\* the boundary: flag true with confidence exactly 0.7 has passed the gate
C2_Witness ==
    /\ Stage1Succeeded
    /\ initial_extraction.is_calendar_event
    /\ initial_extraction.confidence_score = 700
    /\ Len(calls) >= 2
    /\ calls[2].site = "parse_event_details"

-----------------------------------------------------------------------------
(* Properties of the parallel validator (checked under ValidatorSpec) *)

calendar_result == task["calendar"].result
security_result == task["security"].result

\* both branches returned an instance of their contract
BothSucceeded ==
    /\ task["calendar"].state = "returned"
    /\ task["security"].state = "returned"
    /\ calendar_result.type = "CalendarValidation"
    /\ security_result.type = "SecurityCheck"

Failed == {b \in BranchNames : task[b].state = "raised"}

\* the branch that was the first to fail
FirstFailed ==
    order[CHOOSE i \in DOMAIN order :
            /\ order[i] \in Failed
            /\ \A j \in 1..(i - 1) : order[j] \notin Failed]

\* C3: with the calendar check returning (true, confidence exactly 0.7) and
\* the security check returning is_safe = true, the verdict is valid (true):
\* the threshold is an inclusive lower bound.
C3_InclusiveThresholdIsValid ==
    (/\ pc = "done"
     /\ BothSucceeded
     /\ calendar_result.is_calendar_request
     /\ calendar_result.confidence_score = 700
     /\ security_result.is_safe)
    => outcome = Return(Bool(TRUE))

\* C4: whenever both branches succeeded, the verdict returned is the
\* conjunction of the calendar verdict, the calendar confidence clearing the
\* threshold as validate_request compares it, and the security verdict; it
\* is a function of the two results alone, whichever branch completed first.
C4_VerdictIsConjunctionInAnyOrder ==
    (pc = "done" /\ BothSucceeded)
    => outcome = Return(Bool(/\ calendar_result.is_calendar_request
                             /\ calendar_result.confidence_score > 700
                             /\ security_result.is_safe))

\* a valid verdict delivered after the security branch completed first
C4_Witness ==
    /\ pc = "done"
    /\ BothSucceeded
    /\ order = <<"security", "calendar", "validate_request">>
    /\ outcome = Return(Bool(TRUE))

\* C5 (as stated): validate_request delivers its outcome only after both
\* branches reached a terminal state, success or failure.
C5_OutcomeOnlyAfterJoin ==
    outcome # Pending =>
        \A b \in BranchNames : task[b].state \in {"returned", "raised"}

\* C5 (amended): a verdict is returned only after both branches returned;
\* an outcome delivered while a branch is not yet terminal is the error of a
\* branch that failed, delivered without waiting for the sibling.
C5_VerdictOnlyAfterJoin ==
    /\ outcome.kind = "return" =>
           \A b \in BranchNames : task[b].state = "returned"
    /\ (outcome # Pending /\ \E b \in BranchNames : task[b].state = "inflight")
           => /\ outcome.kind = "raise"
              /\ \E c \in Failed : outcome.error = task[c].error

\* the aggregate has failed while the sibling's call is in flight
C5_Witness ==
    /\ pc = "done"
    /\ outcome.kind = "raise"
    /\ \E b \in BranchNames : task[b].state = "inflight"

\* C6: both structured calls carry the unmodified user input, and the
\* security call is issued before the calendar call has resolved: no call
\* resolves while fewer than two calls were issued, and the invocation never
\* ends with fewer than two calls.
C6_BothCallsIssuedConcurrentlyOnSameInput ==
    /\ \A k \in DOMAIN calls : calls[k].user = user_input
    /\ (\E k \in DOMAIN calls : calls[k].status # "inflight") => Len(calls) = 2
    /\ pc = "done" => Len(calls) = 2
    /\ Len(calls) = 2 => /\ calls[1].site = "validate_calendar_request"
                         /\ calls[2].site = "check_security"

\* both calls in flight at once
C6_Witness ==
    /\ Len(calls) = 2
    /\ \A k \in DOMAIN calls : calls[k].status = "inflight"
    /\ calls[1].user = calls[2].user

\* C7 (as stated): when a branch failed with ServiceUnavailable or
\* SchemaViolation, validate_request ends with that same error, whatever the
\* other branch did.
C7_BranchErrorIsTheAggregateError ==
    \A b \in BranchNames :
        (/\ pc = "done"
         /\ task[b].state = "raised"
         /\ task[b].error \in {"ServiceUnavailable", "SchemaViolation"})
        => outcome = Raise(task[b].error)

\* C7 (amended): once a branch has failed with ServiceUnavailable or
\* SchemaViolation, validate_request never returns a verdict, whatever the
\* other branch returned: it ends with the error, unchanged, of the branch
\* that failed first, which is that same error unless the other branch had
\* failed before it.
C7_BranchErrorFailsAggregate ==
    \A b \in BranchNames :
        (/\ task[b].state = "raised"
         /\ task[b].error \in {"ServiceUnavailable", "SchemaViolation"})
        => /\ outcome.kind # "return"
           /\ pc = "done" =>
                /\ outcome = Raise(task[FirstFailed].error)
                /\ FirstFailed = b => outcome = Raise(task[b].error)
                /\ Failed = {b} => outcome = Raise(task[b].error)

\* the security check failed after the calendar check had returned
C7_Witness ==
    /\ pc = "done"
    /\ task["calendar"].state = "returned"
    /\ calendar_result.type = "CalendarValidation"
    /\ task["security"].state = "raised"
    /\ task["security"].error = "SchemaViolation"
    /\ outcome = Raise("SchemaViolation")

\* C8: a branch in flight is never cancelled (its only ways out of flight
\* are to return or to raise), and a sibling in flight when validate_request
\* has failed later reaches its own terminal state.
C8_SiblingRunsToCompletion ==
    /\ [][\A b \in BranchNames :
            task[b].state = "inflight"
                => task'[b].state \in {"inflight", "returned", "raised"}]_vars
    /\ \A b \in BranchNames :
            (outcome.kind = "raise" /\ task[b].state = "inflight")
                ~> (task[b].state \in {"returned", "raised"})

\* the security call resolved after validate_request had failed
C8_Witness ==
    /\ order = <<"calendar", "validate_request", "security">>
    /\ outcome.kind = "raise"
    /\ task["security"].state \in {"returned", "raised"}
    /\ calls[task["security"].call].status # "inflight"

\* both branches have failed and gather has run the done callback of neither:
\* the two failures are simultaneous for the aggregate
FailedSimultaneously ==
    /\ Failed = BranchNames
    /\ \A b \in BranchNames : ~task[b].notified
    /\ outer.kind = "pending"

\* C9: when both branches fail simultaneously, the error the aggregate is
\* settled with is the error of the branch registered first, the calendar
\* check, so that the aggregate error does not depend on the order in which
\* the two failures arrived.
C9_TieBreakByRegistrationOrder ==
    [][(FailedSimultaneously /\ outer'.kind = "exception")
          => outer'.error = task[Branches[1]].error]_vars

\* Scenario C: calendar (true, 0.9), security (false, flags = ["jailbreak"])
ScenarioC ==
    /\ pc = "done"
    /\ BothSucceeded
    /\ calendar_result.is_calendar_request
    /\ calendar_result.confidence_score = 900
    /\ ~security_result.is_safe
    /\ security_result.risk_flags = <<"jailbreak">>

\* the lists a returned value carries besides its verdict
DetailsCarried(v) ==
    {v[f] : f \in {g \in DOMAIN v : g \notin {"type", "val"}}}

\* C10: in Scenario C the returned outcome has overallValid = false and
\* contains the flags list ["jailbreak"], preserved verbatim.
C10_OutcomeCarriesFlags ==
    ScenarioC =>
        /\ outcome.kind = "return"
        /\ outcome.value.val = FALSE
        /\ <<"jailbreak">> \in DetailsCarried(outcome.value)

-----------------------------------------------------------------------------
(* Properties shared by the three notebooks (checked under Spec) *)

ChainSites == {"extract_event_info", "parse_event_details", "generate_confirmation"}

ValidatorSites == {BranchSite(b) : b \in BranchNames}

\* the notebook the invocation belongs to, known from its first call
InChain == calls # <<>> /\ calls[1].site \in ChainSites
InValidator == calls # <<>> /\ calls[1].site \in ValidatorSites
InRouter == calls # <<>> /\ calls[1].site \in RouterSites

\* the calls that failed with a content-policy violation
PolicyFailures ==
    {k \in DOMAIN calls :
        /\ calls[k].status = "failed"
        /\ calls[k].response.error = "ContentPolicyViolation"}

\* C11 as stated: whenever a call failed with a content-policy violation,
\* the invocation ends with that violation as its error, in the chain, the
\* validator and the router alike.
C11_PolicyViolationAlwaysVisible ==
    (pc = "done" /\ PolicyFailures # {})
    => outcome = Raise("ContentPolicyViolation")

\* C11: a call that fails with a content-policy violation ends the invocation
\* with an error and never with None or a verdict; in the chain and the router
\* the error is that violation, in the validator it is that violation when
\* its branch is the first to fail (the failure of the sibling is reported
\* otherwise); and no call is issued again at the site of the failed one.
C11_PolicyViolationEndsInvocation ==
    \A k \in PolicyFailures :
        /\ outcome.kind # "return"
        /\ pc = "done" => outcome.kind = "raise"
        /\ (pc = "done" /\ ~InValidator)
           => outcome = Raise("ContentPolicyViolation")
        /\ (pc = "done" /\ InValidator /\ calls[k].site = BranchSite(FirstFailed))
           => outcome = Raise("ContentPolicyViolation")
        /\ ~InValidator => k = Len(calls)
        /\ \A j \in DOMAIN calls : j # k => calls[j].site # calls[k].site

C11_Witness ==
    /\ InValidator
    /\ pc = "done"
    /\ Failed = BranchNames
    /\ task[FirstFailed].error = "ContentPolicyViolation"
    /\ outcome = Raise("ContentPolicyViolation")

-----------------------------------------------------------------------------
(* Properties of the confidence router (checked under RouterSpec) *)

\* the classification call returned an instance of CalendarRequestType
Classified == route_result # NoneValue

\* how many times the function of `site` was entered
Invocations(site) == Cardinality({i \in DOMAIN log : log[i] = SiteEntryLog(site)})

\* the calls issued at `site`
CallsAt(site) == {k \in DOMAIN calls : calls[k].site = site}

RouterRejected == pc = "done" /\ outcome = Return(NoneValue)

RouterDone ==
    /\ pc = "done"
    /\ outcome.kind = "return"
    /\ outcome.value.type = "CalendarResponse"

\* C12: the dispatch is total and exclusive: with a confidence at or above
\* the threshold, new_event enters handle_new_event once and never
\* handle_modify_event, modify_event enters handle_modify_event once and never
\* handle_new_event; every other category and every confidence below the
\* threshold enters no handler and returns None.
C12_DispatchTotalAndExclusive ==
    Classified =>
        LET confident == route_result.confidence_score >= RouterThreshold
            category == route_result.request_type
        IN /\ (confident /\ category = "new_event")
              => /\ Invocations("handle_new_event") = 1
                 /\ Invocations("handle_modify_event") = 0
           /\ (confident /\ category = "modify_event")
              => /\ Invocations("handle_modify_event") = 1
                 /\ Invocations("handle_new_event") = 0
           /\ (~confident \/ category \notin {"new_event", "modify_event"})
              => /\ Invocations("handle_new_event") = 0
                 /\ Invocations("handle_modify_event") = 0
                 /\ RouterRejected

C12_Witness ==
    /\ RouterDone
    /\ route_result.request_type = "modify_event"
    /\ route_result.confidence_score >= RouterThreshold
    /\ Invocations("handle_modify_event") = 1

LowConfidenceLogged ==
    \E i \in DOMAIN log : log[i].level = "WARNING" /\ log[i].msg = "Low confidence score"

\* C13: the router rejects on confidence exactly when the confidence is
\* below 0.7; it then returns None after one call whatever the category; at
\* exactly 0.7 a new_event request is handed to handle_new_event and a
\* modify_event request to handle_modify_event, and to no other handler.
C13_RejectsIffBelowThreshold ==
    Classified =>
        /\ LowConfidenceLogged <=> route_result.confidence_score < RouterThreshold
        /\ route_result.confidence_score < RouterThreshold
           => (RouterRejected /\ Len(calls) = 1)
        /\ (/\ route_result.confidence_score = RouterThreshold
            /\ route_result.request_type \in {"new_event", "modify_event"})
           => LET matching == IF route_result.request_type = "new_event"
                              THEN "handle_new_event"
                              ELSE "handle_modify_event"
              IN /\ ~RouterRejected
                 /\ Invocations(matching) = 1
                 /\ CallsAt(matching) # {}
                 /\ \A h \in Handlers \ {matching} :
                       Invocations(h) = 0 /\ CallsAt(h) = {}

\* at exactly 0.7 a new_event request was answered by handle_new_event
C13_Witness ==
    /\ RouterDone
    /\ route_result.request_type = "new_event"
    /\ route_result.confidence_score = RouterThreshold
    /\ Invocations("handle_new_event") = 1
    /\ calls[2].site = "handle_new_event"

\* C14: a request classified as `other` returns None without entering a
\* handler whatever its confidence (0.9 and 1.0 included), after exactly one
\* call.
C14_OtherIsRejected ==
    (Classified /\ route_result.request_type = "other")
    => /\ RouterRejected
       /\ \A h \in Handlers : Invocations(h) = 0 /\ CallsAt(h) = {}
       /\ Len(calls) = 1

C14_Witness ==
    /\ RouterRejected
    /\ Classified
    /\ route_result.request_type = "other"
    /\ route_result.confidence_score = 1000
    /\ \E i \in DOMAIN log : log[i].msg = "Request type not supported"

\* C15: the first call of an invocation is the classification call, there is
\* exactly one classification call, and a handler call is issued only after
\* the classification call returned its result.
C15_ClassificationFirstAndOnce ==
    calls # <<>> =>
        /\ calls[1].site = "route_calendar_request"
        /\ CallsAt("route_calendar_request") = {1}
        /\ Invocations("route_calendar_request") = 1
        /\ \A k \in DOMAIN calls :
              calls[k].site \in Handlers
              => /\ k > 1
                 /\ calls[1].status = "ok"
                 /\ calls[1].response.kind = "parsed"
                 /\ route_result = calls[1].response.parsed

C15_Witness ==
    /\ Len(calls) = 2
    /\ calls[2].site \in Handlers
    /\ calls[2].status = "inflight"
    /\ calls[1].status = "ok"

\* C16: a handler issues exactly one call and then builds its response: no
\* second handler call, no second classification, never the other handler;
\* an invocation that returns a CalendarResponse has made exactly two calls,
\* and the response is built from the answer to the second.
C16_HandlerIssuesOneCall ==
    /\ Cardinality(UNION {CallsAt(h) : h \in Handlers}) <= 1
    /\ Invocations("handle_new_event") + Invocations("handle_modify_event") <= 1
    /\ Invocations("route_calendar_request") <= 1
    /\ Len(calls) <= 2
    /\ RouterDone
       => /\ Len(calls) = 2
          /\ \A k \in DOMAIN calls : calls[k].status = "ok"
          /\ calls[2].site = Dispatch(route_result)
          /\ outcome.value =
                IF calls[2].site = "handle_new_event"
                THEN NewEventResponse(calls[2].response.parsed)
                ELSE ModifyEventResponse(calls[2].response.parsed)

C16_Witness ==
    /\ RouterDone
    /\ calls[2].site = "handle_new_event"
    /\ Len(calls) = 2

-----------------------------------------------------------------------------
(* What the router returns and sends (checked under RouterSpec) *)

\* C31: every CalendarResponse the router returns has success = true and
\* a link that is present and built from the name or the identifier the
\* handler extracted; nothing is returned with success = false: a failure
\* of a handler ends in an error, a rejection in None.
C31_EnvelopeIsAlwaysSuccess ==
    outcome.kind = "return"
    => \/ outcome.value = NoneValue
       \/ /\ outcome.value.type = "CalendarResponse"
          /\ outcome.value.success = TRUE
          /\ outcome.value.calendar_link # NoneValue
          /\ Len(calls) = 2
          /\ calls[2].response.kind = "parsed"
          /\ outcome.value.calendar_link =
                IF calls[2].site = "handle_new_event"
                THEN FString("calendar://new?event={name}",
                             <<calls[2].response.parsed.name>>)
                ELSE FString("calendar://modify?event={event_identifier}",
                             <<calls[2].response.parsed.event_identifier>>)

C31_Witness ==
    /\ RouterDone
    /\ calls[2].site = "handle_new_event"
    /\ calls[2].response.parsed.participants = <<>>
    /\ outcome.value.success = TRUE
    /\ outcome.value.calendar_link # NoneValue

NotSupportedLogged ==
    \E i \in DOMAIN log :
        log[i].level = "WARNING" /\ log[i].msg = "Request type not supported"

\* C32: a rejection for low confidence and a rejection for an unsupported
\* category return the same value, None, so the value returned does not
\* tell the cause; when both apply (category other, confidence below 0.7)
\* the confidence check decides: only its warning is logged.
C32_RejectionCausesReturnSameValue ==
    /\ (LowConfidenceLogged \/ NotSupportedLogged) => outcome = Return(NoneValue)
    /\ ~(LowConfidenceLogged /\ NotSupportedLogged)
    /\ (outcome = Return(NoneValue) /\ Classified)
       => /\ LowConfidenceLogged \/ NotSupportedLogged
          /\ route_result.confidence_score < RouterThreshold
             => (LowConfidenceLogged /\ ~NotSupportedLogged)
          /\ (/\ route_result.confidence_score >= RouterThreshold
              /\ route_result.request_type = "other")
             => NotSupportedLogged

C32_Witness ==
    /\ RouterRejected
    /\ Classified
    /\ route_result.request_type = "other"
    /\ route_result.confidence_score = 699
    /\ LowConfidenceLogged

\* C33: the user message of the handler's call is exactly the description
\* of the classification result; the raw request is the user message of the
\* classification call only.
C33_HandlerReadsTheDescription ==
    /\ Len(calls) >= 1 => calls[1].user = user_input
    /\ \A k \in DOMAIN calls :
          calls[k].site \in Handlers
          => /\ calls[k].user = calls[1].response.parsed.description
             /\ calls[1].response.parsed.description # user_input
                => calls[k].user # user_input

C33_Witness ==
    /\ Len(calls) = 2
    /\ calls[2].site = "handle_modify_event"
    /\ calls[2].user # user_input
    /\ calls[2].user = route_result.description

-----------------------------------------------------------------------------
(* Sequencing of the chain and the router (checked under Spec) *)

\* C17: the chain and the router are sequential: at most one call is in
\* flight at any time, and a call is issued only after every earlier call of
\* the invocation has resolved.
C17_AtMostOneCallInFlight ==
    (InChain \/ InRouter)
    => /\ Cardinality(InFlight) <= 1
       /\ \A k \in DOMAIN calls : k < Len(calls) => calls[k].status # "inflight"

C17_Witness ==
    /\ InRouter
    /\ Len(calls) = 2
    /\ calls[1].status = "ok"
    /\ InFlight = {2}

-----------------------------------------------------------------------------
(* Data flow and life cycle of the prompt chain (checked under ChainSpec) *)

\* the stages in the order process_calendar_request calls them
ChainOrder == <<"extract_event_info", "parse_event_details", "generate_confirmation">>

\* message.parsed of the answer to call k
Answer(k) ==
    IF calls[k].response.kind = "parsed" THEN calls[k].response.parsed ELSE NoneValue

\* C18: the user message of stage 2 is exactly the description returned by
\* stage 1, the user message of stage 3 is made of the result of stage 2
\* alone, and the raw request is the user message of stage 1 only.
C18_EachStageReadsThePreviousResult ==
    /\ Len(calls) >= 1 => calls[1].user = user_input
    /\ Len(calls) >= 2
       => /\ calls[2].user = Answer(1).description
          /\ Answer(1).description # user_input => calls[2].user # user_input
    /\ Len(calls) >= 3
       => /\ calls[3].user = ModelDumpStr(Answer(2))
          /\ calls[3].user # user_input

C18_Witness ==
    /\ Len(calls) = 3
    /\ Answer(1).description # user_input
    /\ Answer(2).name # Answer(1).description

Logged(msg) == \E i \in DOMAIN log : log[i].msg = msg

ChainDone == Logged("Calendar request processing completed successfully")

ChainRejected == Logged("Gate check failed")

ChainGatePassed == Logged("Gate check passed, proceeding with event processing")

\* C19: the chain moves Start -> stage 1 issued -> gate passed -> stage 2 ->
\* stage 3 -> Done, or stage 1 issued -> gate failed -> Rejected: the calls
\* are issued in stage order, each after the one before returned its result;
\* Done is reached with exactly three successful calls and returns the result
\* of stage 3 unchanged; Rejected is reached with one call; and no call
\* follows Done or Rejected.
C19_ChainLifeCycle ==
    /\ Len(calls) <= 3
    /\ \A k \in DOMAIN calls :
          /\ calls[k].site = ChainOrder[k]
          /\ k > 1 => (calls[k - 1].status = "ok" /\ Answer(k - 1) # NoneValue)
    /\ ChainGatePassed <=> Len(calls) >= 2
    /\ ~(ChainDone /\ ChainRejected)
    /\ ChainRejected
       => /\ ~ChainGatePassed
          /\ Len(calls) = 1
          /\ calls[1].status = "ok"
          /\ pc = "done"
          /\ outcome = Return(NoneValue)
    /\ ChainDone
       => /\ Len(calls) = 3
          /\ \A k \in DOMAIN calls : calls[k].status = "ok"
          /\ pc = "done"
          /\ outcome = Return(Answer(3))
    /\ pc = "done" => InFlight = {}

C19_Witness ==
    /\ ChainDone
    /\ outcome.kind = "return"
    /\ outcome.value.type = "EventConfirmation"

\* C20: the three ways an invocation of the chain ends are told apart by
\* what it hands back: None is returned only by the gate, after calls that
\* all succeeded; a failed call never ends in a returned value; and the
\* result of a completed run is never None.
C20_OutcomesDistinguishable ==
    /\ outcome = Return(NoneValue)
       => /\ ChainRejected
          /\ \A k \in DOMAIN calls : calls[k].status = "ok"
    /\ (\E k \in DOMAIN calls : calls[k].status = "failed") => outcome.kind # "return"
    /\ ChainDone => outcome # Return(NoneValue)

-----------------------------------------------------------------------------
(* Errors and call budget (checked under Spec) *)

\* the calls that failed
FailedCalls == {k \in DOMAIN calls : calls[k].status = "failed"}

\* C21: in the chain and the router, a call that fails with error E ends
\* the invocation with exactly E, and no call is issued after the failed one.
C21_GatewayErrorPropagatesUnchanged ==
    (InChain \/ InRouter)
    => \A k \in FailedCalls :
          /\ calls[k].response.error \in GatewayErrors
          /\ pc = "done"
          /\ outcome = Raise(calls[k].response.error)
          /\ k = Len(calls)

C21_Witness ==
    /\ InRouter
    /\ Len(calls) = 2
    /\ calls[2].status = "failed"
    /\ calls[2].response.error = "SchemaViolation"
    /\ outcome = Raise("SchemaViolation")


\* C22: no retry: within one invocation each call site sends at most one
\* request, also when that request fails; the chain issues at most 3 calls,
\* the router at most 2 and the validator at most 2.
C22_OneRequestPerCallSite ==
    /\ \A site \in ChainSites \cup ValidatorSites \cup RouterSites :
          Cardinality(CallsAt(site)) <= 1
    /\ InChain => (Len(calls) <= 3 /\ \A k \in DOMAIN calls : calls[k].site \in ChainSites)
    /\ InRouter => (Len(calls) <= 2 /\ \A k \in DOMAIN calls : calls[k].site \in RouterSites)
    /\ InValidator
       => (Len(calls) <= 2 /\ \A k \in DOMAIN calls : calls[k].site \in ValidatorSites)

C22_Witness ==
    /\ InValidator
    /\ pc = "done"
    /\ Len(calls) = 2
    /\ FailedCalls = {1, 2}


\* C23: a structured call ends in one of two ways: it returns an instance of
\* its output contract, or it fails with ServiceUnavailable,
\* ContentPolicyViolation or SchemaViolation; it never hands None to the
\* code that called it, and nothing but those three errors comes out of it.
C23_CallReturnsContractOrTypedError ==
    /\ \A k \in DOMAIN calls :
          /\ calls[k].status = "ok"
             => /\ calls[k].response.kind = "parsed"
                /\ calls[k].response.parsed.type = calls[k].contract
          /\ calls[k].status = "failed" => calls[k].response.error \in GatewayErrors
    /\ outcome.kind = "raise" => outcome.error \in GatewayErrors

\* the scores of the range the contracts describe: between 0 and 1
UnitInterval == {x \in ConfidenceScores : 0 <= x /\ x <= 1000}

\* C25: every confidence score that the gate of the chain, the combination
\* of the validator or the threshold check of the router reads is between 0
\* and 1.
C25_ConfidenceReadIsInUnitInterval ==
    /\ initial_extraction # NoneValue
       => initial_extraction.confidence_score \in UnitInterval
    /\ route_result # NoneValue => route_result.confidence_score \in UnitInterval
    /\ (/\ InValidator
        /\ pc = "done"
        /\ outcome.kind = "return"
        /\ calendar_result.is_calendar_request)
       => calendar_result.confidence_score \in UnitInterval

-----------------------------------------------------------------------------
(* More properties of the parallel validator (checked under ValidatorSpec) *)

\* C27: the validator has no short-circuit: no branch resolves and
\* validate_request does not end before both calls, one per check, are
\* issued, and no third call is ever issued; so also when the calendar check
\* resolves first with a negative or unsure answer, and when a branch fails.
C27_BothCallsAlwaysIssued ==
    /\ Len(calls) <= 2
    /\ (order # <<>> \/ pc = "done")
       => /\ Len(calls) = 2
          /\ {calls[k].site : k \in DOMAIN calls} = ValidatorSites

C27_Witness ==
    /\ pc = "done"
    /\ order[1] = "calendar"
    /\ task["calendar"].state = "returned"
    /\ calendar_result.type = "CalendarValidation"
    /\ ~calendar_result.is_calendar_request
    /\ task["security"].state = "raised"
    /\ Len(calls) = 2

\* C28: validate_request ends at the first failure of a branch, not after
\* the last branch completed: as soon as gather has run the done callback
\* of a branch that failed, the future validate_request awaits is settled
\* with an exception, whatever the sibling's state; and when
\* validate_request has ended with the call of a branch still in flight its
\* outcome is the error of the branch that failed.
C28_AggregateFailsAtFirstFailure ==
    /\ \A b \in Failed : task[b].notified => outer.kind = "exception"
    /\ (pc = "done" /\ \E b \in BranchNames : task[b].state = "inflight")
       => /\ Failed # {}
          /\ outcome = Raise(task[FirstFailed].error)

\* validate_request has ended with the error of the security check while
\* the call of the calendar check is in flight
C28_Witness ==
    /\ pc = "done"
    /\ outcome = Raise("ContentPolicyViolation")
    /\ task["security"].state = "raised"
    /\ task["security"].notified
    /\ task["calendar"].state = "inflight"
    /\ calls[task["calendar"].call].status = "inflight"

\* C29: the verdict does not depend on the risk flags: whatever list the
\* security check returned, the verdict is the one the same results give
\* with any other list, and the value returned is the bare verdict.
C29_VerdictIgnoresRiskFlags ==
    (pc = "done" /\ BothSucceeded)
    => /\ \A flags \in FlagLists :
             outcome = Return(Bool(is_valid(calendar_result,
                                            [security_result EXCEPT !.risk_flags = flags])))
       /\ outcome = Return(Bool(/\ calendar_result.is_calendar_request
                                /\ calendar_result.confidence_score > ValidatorThreshold
                                /\ security_result.is_safe))
       /\ DOMAIN outcome.value = {"type", "val"}

C29_Witness ==
    /\ pc = "done"
    /\ BothSucceeded
    /\ security_result.is_safe
    /\ security_result.risk_flags # <<>>
    /\ outcome = Return(Bool(TRUE))

-----------------------------------------------------------------------------
(* Termination (checked under FairSpec) *)

\* the step issues a call
IssuesCall == Len(calls') > Len(calls)

\* C30: when every call issued resolves, an invocation that has started
\* reaches a terminal outcome (a result, None or an error); it does so
\* within 3 calls, an ended invocation is not entered again, and in the
\* chain and the router a call is issued only by the step in which the call
\* before it returns its result, so that nothing follows a call that never
\* resolves.
C30_InvocationTerminates ==
    /\ (pc # "idle") ~> (pc = "done" /\ outcome.kind \in {"return", "raise"})
    /\ [](Len(calls) <= 3)
    /\ [](outcome.kind # "pending" <=> pc = "done")
    /\ [][pc = "done" => (pc' = "done" /\ outcome' = outcome)]_vars
    /\ [][(IssuesCall /\ calls # <<>> /\ ~InValidator)
            => /\ calls[Len(calls)].status = "inflight"
               /\ calls'[Len(calls)].status = "ok"
               /\ calls'[Len(calls)].response.kind = "parsed"]_vars

C30_Witness ==
    /\ InChain
    /\ pc = "done"
    /\ Len(calls) = 3
    /\ outcome.kind = "return"

-----------------------------------------------------------------------------
(* Independence of the invocations of a session (checked under SessionSpec) *)

\* C24: no state is held across invocations: every invocation of a session
\* starts from the locals of a first invocation, and every step it takes is
\* a step a first invocation takes from the same locals with the same
\* input and the same answer, so its calls and its outcome are those it
\* would have had as the first one; what is left of earlier invocations
\* changes none of its locals.
C24_InvocationsAreIndependent ==
    /\ [](pc = "idle" => FreshLocals)
    /\ [][Next \/ (pc = "done" /\ FreshLocals') \/ UNCHANGED localVars]_vars

C24_Witness ==
    /\ invocation = 2
    /\ InValidator
    /\ stale["security"] = 1
    /\ pc = "done"
    /\ outcome.kind = "return"

-----------------------------------------------------------------------------
(* Knowledge lookup (checked under KbSpec) *)

\* C26: search_kb returns the entire corpus whatever the query: two calls
\* against the same file give the same value, and that value holds every
\* record of the file in the order of the file.
C26_LookupIgnoresQuery ==
    /\ \A i, j \in DOMAIN lookups : lookups[i].result = lookups[j].result
    /\ \A i \in DOMAIN lookups :
          kb_file.state = "json"
          => /\ lookups[i].result.kind = "return"
             /\ lookups[i].result.value.records = kb_file.records

C26_Witness ==
    /\ Len(lookups) = 2
    /\ lookups[1].question # lookups[2].question
    /\ kb_file.state = "json"
    /\ Len(kb_file.records) = 2
    /\ kb_file.records[1].question # kb_file.records[2].question
    /\ lookups[1].result = lookups[2].result

-----------------------------------------------------------------------------
(* Tool-calling loop (checked under ToolSpec) *)

\* the entries appended to messages by the loop
Appended == SubSeq(messages, Len(InitialMessages) + 1, Len(messages))

\* the loop has ended, by running out of tool calls or by an error
LoopEnded == tool_pc = "done" /\ completion.tool_calls = "list"

\* C34 (as stated): for a completion carrying n tool calls the loop leaves
\* the message list longer by exactly 2n entries.
C34_ListGrowsByTwiceTheToolCalls ==
    LoopEnded => Len(Appended) = 2 * Len(completion.list)

\* C34 (amended): for a completion carrying n tool calls (n >= 1),
\* the loop appends, in tool-call order, the assistant message and
\* then one tool message carrying the id of the call, once per tool call
\* that ran; a name call_function does not know gives the content null and
\* no error; a loop that ran all n tool calls leaves 2n entries; a loop
\* ended by an error in call i (arguments that are not JSON, or a failure
\* of a known tool) leaves the 2(i - 1) entries of the calls before it,
\* and the assistant message of call i when the tool itself failed.
C34_LoopAppendsPairsUntilAnError ==
    completion # NoneValue /\ completion.tool_calls = "list" =>
        LET tcs == completion.list
            n == Len(tcs)
        IN /\ SubSeq(messages, 1, Len(InitialMessages)) = InitialMessages
           /\ tool_index <= n
           /\ \A i \in 1..tool_index :
                 /\ Appended[2 * i - 1] = AssistantMessage(completion)
                 /\ Appended[2 * i].role = "tool"
                 /\ Appended[2 * i].tool_call_id = tcs[i].id
                 /\ tcs[i].name # call_function_for
                    => Appended[2 * i].content = [type |-> "str", text |-> "null"]
           /\ tool_outcome.kind # "raise" => Len(Appended) = 2 * tool_index
           /\ tool_outcome.kind = "return" => tool_index = n
           /\ tool_outcome.kind = "raise"
              => /\ tool_index < n
                 /\ \/ /\ tcs[tool_index + 1].arguments.state = "invalid"
                       /\ tool_outcome = Raise("JSONDecodeError")
                       /\ Len(Appended) = 2 * tool_index
                    \/ /\ tcs[tool_index + 1].arguments.state = "json"
                       /\ tcs[tool_index + 1].name = call_function_for
                       /\ Len(Appended) = 2 * tool_index + 1
                       /\ Appended[Len(Appended)] = AssistantMessage(completion)

\* two tool calls ran, the first to a tool call_function does not know
C34_Witness ==
    /\ tool_pc = "done"
    /\ tool_outcome.kind = "return"
    /\ completion.tool_calls = "list"
    /\ Len(completion.list) = 2
    /\ completion.list[1].name = "track_order"
    /\ Len(Appended) = 4
    /\ Appended[1] = Appended[3]
    /\ Appended[2].content = [type |-> "str", text |-> "null"]

====
